---- MODULE Spec2Model ----
(***************************************************************************)
(* Model of the candidate matching pipelines of idenLookup:                *)
(*   - Backend/final_facial_embedding.py  main / download_compare          *)
(*     (face-only pipeline run on a thread pool, writes top_matches.json)  *)
(*   - Backend/api.py                     match (/match handler)           *)
(*   - Backend/integrated_system.py       verify_with_facial_recognition   *)
(*     (sequential face-only pipeline) and FacialMatcher.score_profiles    *)
(*     (composite scoring)                                                 *)
(*                                                                         *)
(* Numbers.  A cosine similarity is kept in millionths (900000 = 0.9), a   *)
(* similarity rounded to 4 decimals in ten-thousandths (9000 = 0.9), a     *)
(* composite score before rounding in millionths and after rounding to 2   *)
(* decimals in hundredths.                                                 *)
(***************************************************************************)
EXTENDS Integers, Sequences, FiniteSets, TLC

VARIABLES
    mode,          \* which pipeline is running: "idle", "main", "verify", "score"
    pc,            \* position inside the running pipeline
    viaMatch,      \* TRUE when main was spawned by the /match handler
    profilesJson,  \* the file profiles.json
    profiles,      \* the list returned by load_profiles
    nextIdx,       \* index of the next profile the loop looks at
    task,          \* per profile: state of the future submitted for it
    ret,           \* per profile: value returned by its task (<<>> is None)
    tempFiles,     \* content of TEMP_DIR: file name -> bytes
    results,       \* the local list results / out / scored
    report,        \* the dict returned by verify_with_facial_recognition
    artifact,      \* the file top_matches.json
    response,      \* the last answer of /match
    fetchCount,    \* request attempts for candidate images made in the current run
    query,         \* the query of the run: the LinkedIn person (score_profiles) and the query embedding
    engine         \* the face model of the run: app is None or prepared, constructions attempted

vars == <<mode, pc, viaMatch, profilesJson, profiles, nextIdx, task, ret,
          tempFiles, results, report, artifact, response, fetchCount, query, engine>>

----------------------------------------------------------------------------
(* Bounds of the model *)

\* longest pool built from arbitrary profiles of ProfileDomain
MaxMixed == 2
\* longest pool of identical profiles given to main
MaxPool == 5
\* longest pool of identical profiles given to verify_with_facial_recognition
MaxVerifyPool == 11
\* longest pool behind a /match request
MaxMatchPool == 2
\* longest list of several records read from top_matches.json
MaxFormatList == 2
\* most faces detected in one image
MaxFaces == 3

----------------------------------------------------------------------------
(* Program constants *)

\* SIMILARITY_THRESHOLD = 0.35, in ten-thousandths
SIMILARITY_THRESHOLD == 3500
MAX_WORKERS == 5
\* results[:4] of main
MainTopN == 4
\* out[:10] of verify_with_facial_recognition
VerifyTopN == 10
\* DETECTION_SCORE_THRESHOLD = 0.5, in thousandths
DETECTION_SCORE_THRESHOLD == 500
\* Retry(total=3): the retries allowed after the first attempt
RetryTotal == 3
\* status_forcelist of the two sessions
MainForcelist == {}
EngineForcelist == {500, 502, 503, 504}

----------------------------------------------------------------------------
(* The outside world: candidate profiles and what their image URLs serve *)

Min(a, b) == IF a <= b THEN a ELSE b

\* an embedding vector, known by its cosine to the reference face of the run
\* (in millionths) and its form: "regular", "zero" (norm 0), "nan" (holds NaN)
Embedding(cos, form) == [cos |-> cos, form |-> form]

\* the embedding of the reference face itself
ReferenceEmbedding == Embedding(1000000, "regular")

\* one face reported by FaceAnalysis.get: det_score in thousandths, the sides
\* of its bbox, its embedding
Face(det_score, width, height, embedding) ==
    [det_score |-> det_score, width |-> width, height |-> height, embedding |-> embedding]

\* content of an image file: the faces FaceAnalysis.get reports in it
Picture(faces) == [kind |-> "image", faces |-> faces]

\* body of an HTTP answer / content of a file.  kind "face": an image with one
\* clear face of cosine similarity cos to the reference face; "zero", "nan":
\* an image whose face has a degenerate embedding; "noface": an image in which
\* no face is detected; "junk": not an image (cv2.imread gives None).
Body(kind, cos) ==
    IF kind = "junk" THEN [kind |-> "junk", faces |-> <<>>]
    ELSE IF kind = "noface" THEN Picture(<<>>)
    ELSE Picture(<<Face(990, 100, 100,
                        Embedding(cos, IF kind = "face" THEN "regular" ELSE kind))>>)

\* session.get(url): status 0 stands for a raised exception
Net(url) ==
    CASE url = "u_hi"     -> [status |-> 200, body |-> Body("face", 900000)]
      [] url = "u_tie"    -> [status |-> 200, body |-> Body("face", 900000)]
      [] url = "u_mid"    -> [status |-> 200, body |-> Body("face", 500000)]
      [] url = "u_edge"   -> [status |-> 200, body |-> Body("face", 349960)]
      [] url = "u_low"    -> [status |-> 200, body |-> Body("face", -120000)]
      [] url = "u_noface" -> [status |-> 200, body |-> Body("noface", 0)]
      [] url = "u_junk"   -> [status |-> 200, body |-> Body("junk", 0)]
      [] url = "u_404"    -> [status |-> 404, body |-> Body("junk", 0)]
      [] url = "u_503"    -> [status |-> 503, body |-> Body("junk", 0)]
      [] url = "u_zero"   -> [status |-> 200, body |-> Body("zero", 0)]
      [] url = "u_nan"    -> [status |-> 200, body |-> Body("nan", 0)]
      [] url = "https://u_rel" -> [status |-> 200, body |-> Body("face", 900000)]
      [] OTHER            -> [status |-> 0,   body |-> Body("junk", 0)]

\* the image URLs of the form //host/... (url.startswith("//"))
ProtocolRelative(url) == url \in {"//u_rel"}

\* one element of profiles.json.  shape tells what profilePicture holds:
\*   "noElements"  displayImage~.elements is empty or absent
\*   "identNull"   identifiers[0].identifier is null (format.py) or ""
\*   "identsEmpty" elements[0].identifiers is an empty list
\*   "url"         identifiers[0].identifier is the string url
Profile(first, last, link, shape, url) ==
    [first |-> first, last |-> last, link |-> link, shape |-> shape, url |-> url]

ProfileDomain ==
    { Profile("Ann", "Lee", "in/ann",  "url", "u_hi"),
      Profile("Ann", "Ray", "in/ann2", "url", "u_junk"),
      Profile("Ann", "Poe", "in/ann3", "url", "u_noface"),
      Profile("Bob", "Roy", "in/bob",  "url", "u_tie"),
      Profile("Cy",  "",    "in/cy",   "identNull", ""),
      Profile("Dee", "Orr", "in/dee",  "url", "u_edge"),
      Profile("Eve", "Fox", "in/eve",  "url", "u_404"),
      Profile("Fay", "Kim", "in/fay",  "identsEmpty", ""),
      Profile("Gus", "Ito", "in/gus",  "url", "u_low"),
      Profile("Hal", "Day", "in/hal",  "noElements", ""),
      Profile("Ida", "Mol", "in/ida",  "url", "u_down"),
      Profile("Jo",  "Ems", "in/jo",   "url", "u_mid") }

\* profiles used for the long pools
BigDomain == { Profile("Ann", "Lee", "in/ann", "url", "u_hi") }

\* profiles whose image URL answers 503, serves a degenerate embedding or is
\* protocol-relative
RareDomain ==
    { Profile("Kai", "Nix", "in/kai", "url", "u_nan"),
      Profile("Pia", "Rel", "in/pia", "url", "//u_rel"),
      Profile("Lev", "Zed", "in/lev", "url", "u_zero"),
      Profile("Moe", "Sol", "in/moe", "url", "u_503") }

RarePools == { <<p>> : p \in RareDomain }

SeqsUpTo(S, n) == UNION { [1..k -> S] : k \in 0..n }

Copies(p, n) == [i \in 1..n |-> p]

MixedPools == SeqsUpTo(ProfileDomain, MaxMixed)

MainPools == MixedPools \cup RarePools \cup { Copies(p, n) : p \in BigDomain, n \in 1..MaxPool }

VerifyPools == MixedPools \cup RarePools \cup { Copies(p, n) : p \in BigDomain, n \in 1..MaxVerifyPool }

\* profiles of the pools behind /match requests
MatchDomain == { p \in ProfileDomain : p.link \in {"in/ann", "in/fay", "in/gus", "in/jo"} }

MatchPools == SeqsUpTo(MatchDomain, MaxMatchPool)

\* what profiles.json can hold: nothing, no JSON, {"elements": pool} as
\* format.py writes it ("wrapped"), or the bare list
FilesOf(pools, shapes) ==
    { [shape |-> "absent", elems |-> <<>>], [shape |-> "invalid", elems |-> <<>>] }
    \cup { [shape |-> s, elems |-> pool] : s \in shapes, pool \in pools }

\* the query image: "missing" (no such file), "noface", "face"
QueryImages == {"missing", "noface", "face"}

----------------------------------------------------------------------------
(* Pure helpers *)

\* round(x, 4) of a similarity in millionths, result in ten-thousandths
\* (round half to even, symmetric around zero)
RoundHalfEven(x, unit) ==
    LET a == IF x >= 0 THEN x ELSE -x
        q == a \div unit
        r == a % unit
        up == IF 2 * r > unit THEN q + 1
              ELSE IF 2 * r < unit THEN q
              ELSE IF q % 2 = 0 THEN q ELSE q + 1
    IN  IF x >= 0 THEN up ELSE -up

Round4(cos) == RoundHalfEven(cos, 100)

\* "{first} {last}".strip()
StripJoin(first, last) ==
    IF first = "" THEN last
    ELSE IF last = "" THEN first
    ELSE first \o " " \o last

\* sorted() left out: the list stays in the order it was built
SortedDescKeepsOrder(seq, keys) == seq

\* sorted(seq, key=..., reverse=True) with keys[i] the key of seq[i]:
\* descending, and stable (equal keys keep the order they have in seq)
SortedDesc(seq, keys) ==
    LET n == Len(seq)
        before(i) == { j \in 1..n : keys[j] > keys[i] \/ (keys[j] = keys[i] /\ j < i) }
    IN  [r \in 1..n |-> seq[CHOOSE i \in 1..n : Cardinality(before(i)) = r - 1]]

\* the slice left out: the whole list is kept
TakeAll(seq, n) == seq

\* seq[:n]
Take(seq, n) == SubSeq(seq, 1, Min(n, Len(seq)))

SimilarityKeys(rs) == [i \in 1..Len(rs) |-> rs[i].similarity]

\* sorted(rs, key=lambda x: x["similarity"], reverse=True)
SortBySimilarity(rs) == SortedDesc(rs, SimilarityKeys(rs))

----------------------------------------------------------------------------
(* final_facial_embedding.py *)

\* load_profiles: the list read, and the file as load_profiles leaves it
LoadProfiles(file) ==
    IF file.shape \in {"wrapped", "list"} THEN file.elems ELSE <<>>

\* a load_profiles that writes back an empty list
LoadProfilesFileEmptied(file) ==
    IF file.shape = "wrapped" THEN [shape |-> "list", elems |-> <<>>]
    ELSE file

LoadProfilesFile(file) ==
    IF file.shape = "wrapped" THEN [shape |-> "list", elems |-> file.elems]
    ELSE file

\* session.get(url) through the HTTPAdapter with Retry(total=3): a connection
\* error, or a status of the forcelist, is tried again until the retries are
\* used up, and then raised (status 0); attempts counts the requests sent.
\* A URL without a scheme is refused (MissingSchema) before anything is sent.
SessionGet(forcelist, url) ==
    LET a == Net(url) IN
    IF ProtocolRelative(url)
    THEN [status |-> 0, body |-> a.body, attempts |-> 0]
    ELSE IF a.status = 0 \/ a.status \in forcelist
    THEN [status |-> 0, body |-> a.body, attempts |-> 1 + RetryTotal]
    ELSE [status |-> a.status, body |-> a.body, attempts |-> 1]

\* f.det_score >= DETECTION_SCORE_THRESHOLD
GoodFace(f) == f.det_score >= DETECTION_SCORE_THRESHOLD

\* (x.bbox[2]-x.bbox[0])*(x.bbox[3]-x.bbox[1]) of each face
Areas(faces) == [i \in 1..Len(faces) |-> faces[i].width * faces[i].height]

\* the sort by area left out: the good faces stay in detection order
RankFacesKeepsOrder(faces) == SelectSeq(faces, GoodFace)

\* faces filtered by det_score and sorted by bbox area, largest first
RankFaces(faces) ==
    LET good == SelectSeq(faces, GoodFace) IN SortedDesc(good, Areas(good))

\* get_face_embedding on the content of a file: <<>> is None, else <<embedding>>
GetFaceEmbedding(body) ==
    IF body.kind # "image" THEN <<>>
    ELSE IF body.faces = <<>> THEN <<>>
    ELSE LET faces == RankFaces(body.faces) IN
         IF faces = <<>> THEN <<>> ELSE <<faces[1].embedding>>

\* get_face_embedding(app, image_path) of the query image
QueryEmbedding(img) == IF img = "face" THEN <<ReferenceEmbedding>> ELSE <<>>

\* sklearn cosine_similarity([emb1], [emb2])[0][0]: a NaN in the input raises
\* ValueError, a vector of norm 0 gives 0.0; of two regular vectors one is
\* the reference face of the run, so the cosine is the one the other carries
CosineSimilarity(emb1, emb2) ==
    [raised |-> emb1.form = "nan" \/ emb2.form = "nan",
     value |-> IF emb1.form # "regular" \/ emb2.form # "regular" THEN 0
               ELSE IF emb1 = ReferenceEmbedding THEN emb2.cos ELSE emb1.cos]

\* a compute_similarity that compares the candidate's embedding with itself
ComputeSimilarityToItself(emb1, emb2) ==
    [raised |-> emb2.form = "nan",
     value |-> IF emb2.form # "regular" THEN 0 ELSE 1000000]

\* compute_similarity: the isnan test sees the value only, an exception of
\* cosine_similarity passes through
ComputeSimilarity(emb1, emb2) == CosineSimilarity(emb1, emb2)

\* os.path.join(TEMP_DIR, f"{p.get('localizedFirstName','unknown')}.jpg")
SavePath(p) == p.first \o ".jpg"

\* a file just opened for writing: no bytes, not an image
EmptyFile == Body("junk", 0)

NoFiles == [n \in {} |-> EmptyFile]

WriteFile(files, name, body) ==
    [n \in DOMAIN files \cup {name} |-> IF n = name THEN body ELSE files[n]]

\* the record download_compare returns
MatchRecord(p, cos) ==
    [name |-> StripJoin(p.first, p.last), profile |-> p.link, similarity |-> Round4(cos)]

AboveThreshold(r) == r.similarity >= SIMILARITY_THRESHOLD

\* [r for r in results if r["similarity"] >= SIMILARITY_THRESHOLD]
FilterThreshold(rs) == SelectSeq(rs, AboveThreshold)

\* lines 162-163: sort, filter, truncate
\* a ranking that keeps the first four results before it sorts them
RankMainTruncatesFirst(rs) == FilterThreshold(SortBySimilarity(Take(rs, MainTopN)))

RankMain(rs) == Take(FilterThreshold(SortBySimilarity(rs)), MainTopN)

NoTasks(n) == [i \in 1..n |-> "none"]
NoRets(n) == [i \in 1..n |-> <<>>]

Absent == [exists |-> FALSE, data |-> <<>>]
NoResponse == [sent |-> FALSE, success |-> FALSE, results |-> <<>>]
NoReport == [returned |-> FALSE, success |-> FALSE, matches |-> <<>>, errors |-> <<>>]
NoQuery == [person |-> <<>>, emb |-> <<>>]
\* FaceRecognitionEngine.__init__: self.app = None
NoEngine == [app |-> FALSE, builds |-> 0]

\* the check of query_emb (lines 134-136) left out
SetupOutcomeSkipsFaceCheck(img, loaded, modelOk) ==
    IF img = "missing" THEN "failed_noimage"
    ELSE IF loaded = <<>> THEN "failed_noprofiles"
    ELSE IF ~modelOk THEN "crashed_init"
    ELSE "submitting"

\* main, lines 122-136: where the checks before the thread pool lead
SetupOutcome(img, loaded, modelOk) ==
    IF img = "missing" THEN "failed_noimage"
    ELSE IF loaded = <<>> THEN "failed_noprofiles"
    ELSE IF ~modelOk THEN "crashed_init"
    ELSE IF QueryEmbedding(img) = <<>> THEN "failed_noface"
    ELSE "submitting"

\* main, lines 111-140: everything before the thread pool is entered
MainSetup(img, file, modelOk) ==
    LET loaded == LoadProfiles(file)
        outcome == SetupOutcome(img, loaded, modelOk)
    IN  /\ profilesJson' = IF outcome = "failed_noimage" THEN file ELSE LoadProfilesFile(file)
        /\ profiles' = IF outcome = "failed_noimage" THEN <<>> ELSE loaded
        /\ query' = [person |-> <<>>,
                     emb |-> IF outcome \in {"failed_noface", "submitting"}
                             THEN QueryEmbedding(img) ELSE <<>>]
        /\ engine' = IF outcome \in {"failed_noimage", "failed_noprofiles"} THEN NoEngine
                      ELSE [app |-> modelOk, builds |-> 1]
        /\ pc' = outcome
        /\ mode' = "main"
        /\ fetchCount' = 0
        /\ results' = <<>>
        /\ nextIdx' = 1
        /\ task' = NoTasks(Len(profiles'))
        /\ ret' = NoRets(Len(profiles'))

\* python final_facial_embedding.py <image> from the command line
StartMain ==
    /\ mode = "idle"
    /\ \E img \in QueryImages, file \in FilesOf(MainPools, {"wrapped", "list"}), modelOk \in BOOLEAN :
            MainSetup(img, file, modelOk)
    /\ viaMatch' = FALSE
    /\ UNCHANGED <<tempFiles, report, artifact, response>>

\* main, lines 145-155: one iteration of the submission loop
Submit ==
    /\ mode = "main"
    /\ pc = "submitting"
    /\ LET p == profiles[nextIdx]
           last == nextIdx = Len(profiles)
       IN  CASE p.shape = "identsEmpty" ->
                    \* identifiers[0] raises IndexError: the with block waits
                    \* for the submitted tasks, then main dies
                    /\ pc' = "unwinding"
                    /\ UNCHANGED task
              [] p.shape = "url" ->
                    /\ task' = [task EXCEPT ![nextIdx] = "queued"]
                    /\ pc' = IF last THEN "collecting" ELSE pc
              [] OTHER ->
                    /\ pc' = IF last THEN "collecting" ELSE pc
                    /\ UNCHANGED task
    /\ nextIdx' = nextIdx + 1
    /\ UNCHANGED <<mode, viaMatch, profilesJson, profiles, ret, tempFiles, results,
                   report, artifact, response, fetchCount, query, engine>>

PoolAlive == mode = "main" /\ pc \in {"submitting", "collecting", "unwinding"}

Executing == { j \in DOMAIN task : task[j] \in {"running", "writing", "saved"} }

\* a worker thread of the pool takes the oldest queued task
TaskStart(i) ==
    /\ PoolAlive
    /\ task[i] = "queued"
    /\ \A j \in 1..(i - 1) : task[j] # "queued"
    /\ Cardinality(Executing) < MAX_WORKERS
    /\ task' = [task EXCEPT ![i] = "running"]
    /\ UNCHANGED <<mode, pc, viaMatch, profilesJson, profiles, nextIdx, ret, tempFiles,
                   results, report, artifact, response, fetchCount, query, engine>>

\* download_compare, lines 177-182: request the image; open(save_path, "wb")
\* leaves the file empty until the bytes are written
TaskDownload(i) ==
    /\ PoolAlive
    /\ task[i] = "running"
    /\ LET r == SessionGet(MainForcelist, profiles[i].url) IN
       /\ IF r.status # 200
          THEN /\ task' = [task EXCEPT ![i] = "finished"]
               /\ UNCHANGED tempFiles
          ELSE /\ task' = [task EXCEPT ![i] = "writing"]
               /\ tempFiles' = WriteFile(tempFiles, SavePath(profiles[i]), EmptyFile)
       /\ fetchCount' = fetchCount + r.attempts
    /\ UNCHANGED <<mode, pc, viaMatch, profilesJson, profiles, nextIdx, ret, results,
                   report, artifact, response, query, engine>>

\* download_compare, lines 182-183: f.write(r.content) and close
TaskWrite(i) ==
    /\ PoolAlive
    /\ task[i] = "writing"
    /\ tempFiles' = WriteFile(tempFiles, SavePath(profiles[i]), Net(profiles[i].url).body)
    /\ task' = [task EXCEPT ![i] = "saved"]
    /\ UNCHANGED <<mode, pc, viaMatch, profilesJson, profiles, nextIdx, ret, results,
                   report, artifact, response, fetchCount, query, engine>>

\* download_compare, lines 185-198: read save_path back, embed, compare
TaskCompare(i) ==
    /\ PoolAlive
    /\ task[i] = "saved"
    /\ LET emb == GetFaceEmbedding(tempFiles[SavePath(profiles[i])])
           sim == ComputeSimilarity(query.emb[1], emb[1])
       IN  ret' = [ret EXCEPT ![i] = IF emb = <<>> THEN <<>>
                                      ELSE IF sim.raised THEN <<>>
                                      ELSE <<MatchRecord(profiles[i], sim.value)>>]
    /\ task' = [task EXCEPT ![i] = "finished"]
    /\ UNCHANGED <<mode, pc, viaMatch, profilesJson, profiles, nextIdx, tempFiles,
                   results, report, artifact, response, fetchCount, query, engine>>

\* main, lines 157-160: as_completed hands over a finished future.  Futures
\* finished before the loop starts come out of a set in no fixed order.
Collect(i) ==
    /\ mode = "main"
    /\ pc = "collecting"
    /\ task[i] = "finished"
    /\ task' = [task EXCEPT ![i] = "collected"]
    /\ results' = results \o ret[i]
    /\ UNCHANGED <<mode, pc, viaMatch, profilesJson, profiles, nextIdx, ret, tempFiles,
                   report, artifact, response, fetchCount, query, engine>>

\* a main that ranks and writes while tasks are still at work
RankEarly ==
    /\ mode = "main"
    /\ pc = "collecting"
    /\ results' = RankMain(results)
    /\ artifact' = [exists |-> TRUE, data |-> results']
    /\ tempFiles' = NoFiles
    /\ pc' = "done"
    /\ UNCHANGED <<mode, viaMatch, profilesJson, profiles, nextIdx, task, ret,
                   report, response, fetchCount, query, engine>>

\* main, lines 162-173: rank, write top_matches.json, remove TEMP_DIR
Rank ==
    /\ mode = "main"
    /\ pc = "collecting"
    /\ \A j \in DOMAIN task : task[j] \in {"none", "collected"}
    /\ results' = RankMain(results)
    /\ artifact' = [exists |-> TRUE, data |-> results']
    /\ tempFiles' = NoFiles
    /\ pc' = "done"
    /\ UNCHANGED <<mode, viaMatch, profilesJson, profiles, nextIdx, task, ret,
                   report, response, fetchCount, query, engine>>

\* the exception leaves the with block once every submitted task has finished
Unwind ==
    /\ mode = "main"
    /\ pc = "unwinding"
    /\ \A j \in DOMAIN task : task[j] \in {"none", "finished"}
    /\ pc' = "crashed"
    /\ UNCHANGED <<mode, viaMatch, profilesJson, profiles, nextIdx, task, ret, tempFiles,
                   results, report, artifact, response, fetchCount, query, engine>>

MainStep ==
    \/ Submit
    \/ \E i \in DOMAIN task : TaskStart(i)
    \/ \E i \in DOMAIN task : TaskDownload(i)
    \/ \E i \in DOMAIN task : TaskWrite(i)
    \/ \E i \in DOMAIN task : TaskCompare(i)
    \/ \E i \in DOMAIN task : Collect(i)
    \/ Rank
    \/ Unwind

MainEnded == mode = "main" /\ pc \in {"failed_noimage", "failed_noprofiles", "failed_noface",
                                       "crashed_init", "crashed", "done"}

----------------------------------------------------------------------------
(* api.py: the /match handler *)

\* the similarities s of 4 decimals in [0, 1] whose double product s * 100
\* falls just below the whole number it stands for (0.29 * 100 is 28.99..6)
FloatShortfall == {2900, 5700, 5800}

\* int(r["similarity"] * 100) of a similarity in ten-thousandths: the double
\* product, cut towards zero
SimilarityPercent(sim) ==
    LET a == IF sim >= 0 THEN sim ELSE -sim
        q == (a \div 100) - (IF a \in FloatShortfall THEN 1 ELSE 0)
    IN  IF sim >= 0 THEN q ELSE -q

\* the status is given for a confidence above 50 only
FormattedStrictlyAbove(r) ==
    LET similarity_percent == SimilarityPercent(r.similarity) IN
    [name |-> r.name,
     platform |-> "LinkedIn",
     confidence |-> similarity_percent,
     status |-> IF similarity_percent > 50 THEN "verified" ELSE "pending",
     profile |-> r.profile]

\* match, lines 52-61: one record of the answer
Formatted(r) ==
    LET similarity_percent == SimilarityPercent(r.similarity) IN
    [name |-> r.name,
     platform |-> "LinkedIn",
     confidence |-> similarity_percent,
     status |-> IF similarity_percent >= 50 THEN "verified" ELSE "pending",
     profile |-> r.profile]

FormattedAll(raw) == [i \in 1..Len(raw) |-> Formatted(raw[i])]

\* match, lines 46-63: the answer built from top_matches.json
MatchAnswer(file) ==
    IF ~file.exists
    THEN [sent |-> TRUE, success |-> FALSE, results |-> <<>>]
    ELSE [sent |-> TRUE, success |-> TRUE, results |-> FormattedAll(file.data)]

\* match, lines 36-43: store the upload as uploaded_input.jpg and spawn main on it
MatchRequest ==
    /\ mode \in {"idle", "answered"}
    /\ \E img \in QueryImages \ {"missing"}, file \in FilesOf(MatchPools, {"wrapped"}), modelOk \in BOOLEAN :
            MainSetup(img, file, modelOk)
    /\ viaMatch' = TRUE
    /\ response' = NoResponse
    /\ UNCHANGED <<tempFiles, report, artifact>>

\* match, lines 44-63: process.wait() returned; answer from top_matches.json.
\* Of the ended process only its outcome (pc, results) is kept on record.
MatchRespond ==
    /\ MainEnded
    /\ viaMatch
    /\ response' = MatchAnswer(artifact)
    /\ mode' = "answered"
    /\ profiles' = <<>>
    /\ nextIdx' = 1
    /\ task' = NoTasks(0)
    /\ ret' = NoRets(0)
    /\ fetchCount' = 0
    /\ query' = NoQuery
    /\ engine' = NoEngine
    /\ UNCHANGED <<pc, viaMatch, profilesJson, tempFiles, results, report, artifact>>

----------------------------------------------------------------------------
(* integrated_system.py: FaceRecognitionEngine and verify_with_facial_recognition *)

\* LinkedInDataHandler.load_profiles: reads only
LoadProfilesReadOnly(file) ==
    IF file.shape \in {"wrapped", "list"} THEN file.elems ELSE <<>>

\* what constructing and preparing FaceAnalysis does in a process: <<>> when
\* insightface is not installed (FaceAnalysis is None), else the outcome of
\* the first, second, ... construction (TRUE prepared, FALSE raised)
EngineEnvs == { <<>>, <<TRUE>>, <<FALSE, FALSE>>, <<FALSE, TRUE>> }

\* FaceRecognitionEngine.initialize
Initialize(eng, env) ==
    IF eng.app THEN eng
    ELSE IF env = <<>> THEN eng
    ELSE [app |-> env[Min(eng.builds + 1, Len(env))], builds |-> eng.builds + 1]

\* the test of self.app left out: the image is analysed without a model
GetEmbeddingWithoutModel(engineOk, body) == GetFaceEmbedding(body)

\* FaceRecognitionEngine.get_embedding, lines 136-151, with self.app prepared
\* or still None after the call of initialize
GetEmbedding(engineOk, body) ==
    IF ~engineOk THEN <<>> ELSE GetFaceEmbedding(body)

\* FaceRecognitionEngine.compute_similarity: any exception gives 0.0
EngineComputeSimilarity(emb1, emb2) ==
    LET sim == CosineSimilarity(emb1, emb2) IN
    IF sim.raised THEN 0 ELSE sim.value

\* the image file candidate_image points at
QueryBody(img) ==
    IF img = "face" THEN Body("face", 1000000)
    ELSE IF img = "noface" THEN Body("noface", 0)
    ELSE Body("junk", 0)

\* download_image, lines 164-165: if url.startswith("//"): url = "https:" + url
Absolute(url) == IF ProtocolRelative(url) THEN "https:" \o url ELSE url

\* FaceRecognitionEngine.download_image: <<>> is False, else <<bytes written>>
DownloadImage(url) ==
    IF url = "" THEN <<>>
    ELSE LET r == SessionGet(EngineForcelist, Absolute(url)) IN
         IF r.status = 200 THEN <<r.body>> ELSE <<>>

\* the requests download_image sends for url
DownloadAttempts(url) ==
    IF url = "" THEN 0 ELSE SessionGet(EngineForcelist, Absolute(url)).attempts

\* lines 944-950: the try/except around the picture lookup gives "" for any
\* shape without an identifier
ImgUrlOf(p) == IF p.shape = "url" THEN p.url ELSE ""

\* f"pr_{sha256(img_url)[:8]}.jpg"
TempImg(url) == "pr_" \o url

VerifyRecord(p, cos) ==
    [name |-> StripJoin(p.first, p.last), profile_url |-> p.link, similarity |-> Round4(cos)]

\* lines 916-938, up to the comparison loop; the finally block empties TEMP_DIR
VerifySetup(img, file, env) ==
    /\  LET loaded == LoadProfilesReadOnly(file)
            \* line 923, and line 935 through get_embedding
            eng == Initialize(Initialize(NoEngine, env), env)
            query_emb == IF loaded = <<>> THEN <<>> ELSE GetEmbedding(eng.app, QueryBody(img))
        IN  /\ profilesJson' = file
            /\ profiles' = loaded
            /\ engine' = IF loaded = <<>> THEN NoEngine ELSE eng
            /\ query' = [person |-> <<>>, emb |-> query_emb]
            /\ IF loaded = <<>> THEN
                    /\ pc' = "failed_noprofiles"
                    /\ report' = [returned |-> TRUE, success |-> FALSE, matches |-> <<>>,
                                  errors |-> <<"No LinkedIn profiles found (profiles.json)">>]
               ELSE IF query_emb = <<>> THEN
                    /\ pc' = "failed_noface"
                    /\ report' = [returned |-> TRUE, success |-> FALSE, matches |-> <<>>,
                                  errors |-> <<"No face found in candidate image">>]
               ELSE /\ pc' = "comparing"
                    /\ report' = NoReport
    /\ mode' = "verify"
    /\ nextIdx' = 1
    /\ results' = <<>>
    /\ fetchCount' = 0
    /\ tempFiles' = NoFiles

\* verify_with_facial_recognition called on a candidate image
StartVerify ==
    /\ mode = "idle"
    /\ \E img \in QueryImages, file \in FilesOf(VerifyPools, {"wrapped", "list"}), env \in EngineEnvs :
            VerifySetup(img, file, env)
    /\ UNCHANGED <<viaMatch, task, ret, artifact, response>>

\* lines 941-964: one iteration of the comparison loop
VerifyStep ==
    /\ mode = "verify"
    /\ pc = "comparing"
    /\ LET p == profiles[nextIdx]
           img_url == ImgUrlOf(p)
           got == DownloadImage(img_url)
           emb == IF got = <<>> THEN <<>> ELSE GetEmbedding(engine.app, got[1])
       IN  /\ fetchCount' = fetchCount + DownloadAttempts(img_url)
           /\ tempFiles' = IF got = <<>> THEN tempFiles
                           ELSE WriteFile(tempFiles, TempImg(img_url), got[1])
           /\ results' = IF emb = <<>> THEN results
                         ELSE Append(results, VerifyRecord(p, EngineComputeSimilarity(query.emb[1], emb[1])))
    /\ nextIdx' = nextIdx + 1
    /\ pc' = IF nextIdx = Len(profiles) THEN "ranking" ELSE pc
    /\ UNCHANGED <<mode, viaMatch, profilesJson, profiles, task, ret, report, artifact,
                   response, query, engine>>

\* lines 965-986: sort, keep ten, report, clean up
VerifyFinish ==
    /\ mode = "verify"
    /\ pc = "ranking"
    /\ results' = SortBySimilarity(results)
    /\ report' = [returned |-> TRUE, success |-> Len(results') > 0,
                  matches |-> Take(results', VerifyTopN), errors |-> <<>>]
    /\ tempFiles' = NoFiles
    /\ pc' = "done"
    /\ UNCHANGED <<mode, viaMatch, profilesJson, profiles, nextIdx, task, ret, artifact,
                   response, fetchCount, query, engine>>

VerifyNext == VerifyStep \/ VerifyFinish

----------------------------------------------------------------------------
(* integrated_system.py: FacialMatcher (composite scoring).  Text is a      *)
(* sequence of one-character strings.                                      *)

UpperCase == <<"A","B","C","D","E","F","G","H","I","J","K","L","M",
               "N","O","P","Q","R","S","T","U","V","W","X","Y","Z">>
LowerCase == <<"a","b","c","d","e","f","g","h","i","j","k","l","m",
               "n","o","p","q","r","s","t","u","v","w","x","y","z">>

LowerChar(c) ==
    IF \E k \in 1..26 : UpperCase[k] = c
    THEN LowerCase[CHOOSE k \in 1..26 : UpperCase[k] = c]
    ELSE c

\* str.lower()
Lower(t) == [i \in 1..Len(t) |-> LowerChar(t[i])]

\* needle in haystack
IsSubstring(needle, hay) ==
    \E s \in 0..(Len(hay) - Len(needle)) :
        \A k \in 1..Len(needle) : hay[s + k] = needle[k]

\* str.strip() of blanks
Strip(t) ==
    LET solid == { i \in 1..Len(t) : t[i] # " " } IN
    IF solid = {} THEN <<>>
    ELSE SubSeq(t, CHOOSE i \in solid : \A j \in solid : i <= j,
                   CHOOSE i \in solid : \A j \in solid : i >= j)

\* str.split(",")[0]
BeforeComma(t) ==
    LET commas == { i \in 1..Len(t) : t[i] = "," } IN
    IF commas = {} THEN t
    ELSE SubSeq(t, 1, (CHOOSE i \in commas : \A j \in commas : i <= j) - 1)

\* length of the common run of a from i and b from j inside a[..ahi], b[..bhi]
RunLength(a, b, i, j, ahi, bhi) ==
    LET ks == { k \in 0..Min(ahi - i + 1, bhi - j + 1) :
                    \A t \in 0..(k - 1) : a[i + t] = b[j + t] }
    IN  CHOOSE k \in ks : \A m \in ks : m <= k

\* SequenceMatcher.find_longest_match on a[alo..ahi], b[blo..bhi]: the longest
\* block, the earliest in a, then the earliest in b
FindLongestMatch(a, b, alo, ahi, blo, bhi) ==
    LET starts == (alo..ahi) \X (blo..bhi)
        size == [p \in starts |-> RunLength(a, b, p[1], p[2], ahi, bhi)]
        sizes == { size[p] : p \in starts }
        longest == CHOOSE k \in sizes : \A m \in sizes : m <= k
        longs == { p \in starts : size[p] = longest }
        best == CHOOSE p \in longs :
                    \A q \in longs : p[1] < q[1] \/ (p[1] = q[1] /\ p[2] <= q[2])
    IN  IF starts = {} THEN <<alo, blo, 0>>
        ELSE IF longest = 0 THEN <<alo, blo, 0>>
        ELSE <<best[1], best[2], longest>>

\* SequenceMatcher.get_matching_blocks: total size of the matching blocks
RECURSIVE MatchedChars(_, _, _, _, _, _)
MatchedChars(a, b, alo, ahi, blo, bhi) ==
    IF alo > ahi \/ blo > bhi THEN 0
    ELSE LET m == FindLongestMatch(a, b, alo, ahi, blo, bhi)
             i == m[1]
             j == m[2]
             k == m[3]
         IN  IF k = 0 THEN 0
             ELSE k + MatchedChars(a, b, alo, i - 1, blo, j - 1)
                    + MatchedChars(a, b, i + k, ahi, j + k, bhi)

\* the ratio of the two strings as they are written, upper and lower case
\* letters being different characters
FuzzyRatioCaseSensitive(a, b) ==
    IF a = <<>> \/ b = <<>> THEN [num |-> 0, den |-> 1]
    ELSE [num |-> 2 * MatchedChars(a, b, 1, Len(a), 1, Len(b)),
          den |-> Len(a) + Len(b)]

\* FacialMatcher.fuzzy_ratio as the fraction num/den (0/1 for an empty string)
FuzzyRatio(a, b) ==
    IF a = <<>> \/ b = <<>> THEN [num |-> 0, den |-> 1]
    ELSE LET la == Lower(a)
             lb == Lower(b)
         IN  [num |-> 2 * MatchedChars(la, lb, 1, Len(la), 1, Len(lb)),
              den |-> Len(la) + Len(lb)]

\* a candidate found on Facebook: page is <<>> when driver.get raises, else
\* <<page_source>>; img is the src of the profile image or "" when none is found
Candidate(url, name, page, img) == [url |-> url, name |-> name, page |-> page, img |-> img]

CandidateDomain ==
    { Candidate("fb/john", <<"J", "o", "h", "n", " ", "S", "m", "i", "t", "h">>, <<<<"J", "o", "h", "n", " ", "P", "u", "n", "e", " ", "T", "C", "S">>>>, "u_hi"),
      Candidate("fb/alice", <<"A", "l", "i", "c", "e", " ", "J", "o", "n", "e", "s">>, <<<<"d", "e", "l", "h", "i", " ", "t", "c", "s">>>>, "u_low"),
      Candidate("fb/jon", <<"J", "o", "n", " ", "S", "m", "i", "t", "h">>, <<<<"i", "n", " ", "p", "u", "n", "e">>>>, ""),
      Candidate("fb/gone", <<"J", "o", "n", " ", "S", "m", "i", "t", "h">>, <<>>, "u_hi"),
      Candidate("fb/anon", <<>>, <<<<"x">>>>, "u_mid"),
      Candidate("fb/ed", <<"E", "d", " ", "R", "u", "x">>, <<<<"x">>>>, "u_low"),
      Candidate("fb/nan", <<"J", "o", "n", " ", "S", "m", "i", "t", "h">>, <<<<"x">>>>, "u_nan") }

\* the person read from the LinkedIn export
Person(name, location, company, photo) ==
    [name |-> name, location |-> location, current_company |-> company, photo_url |-> photo]

PersonDomain ==
    { Person(<<"J", "o", "n", " ", "S", "m", "i", "t", "h">>, <<"P", "u", "n", "e", ",", " ", "I", "n", "d", "i", "a">>, <<"T", "C", "S">>, "u_self"),
      Person(<<"J", "o", "n", " ", "S", "m", "i", "t", "h">>, <<>>, <<>>, ""),
      Person(<<"J", "o", "n", " ", "S", "m", "i", "t", "h">>, <<" ", ",", " ", "I", "n", "d", "i", "a">>, <<"T", "C", "S">>, "u_noface") }

CandidatePools == SeqsUpTo(CandidateDomain, MaxMixed)

\* the LinkedIn photo is the reference face of the run
NetPhoto(url) ==
    IF url = "u_self" THEN [status |-> 200, body |-> Body("face", 1000000)] ELSE Net(url)

DownloadPhoto(url) ==
    IF url = "" THEN <<>>
    ELSE LET r == NetPhoto(url) IN IF r.status = 200 THEN <<r.body>> ELSE <<>>

\* f"fb_{sha256(url)[:8]}.jpg"
TempFb(url) == "fb_" \o url

\* lines 726-734: 20 when the text before the first comma of the location is
\* non-empty and occurs in the page
LocationPoints(ln_loc, text) ==
    IF ln_loc = <<>> THEN 0
    ELSE LET token == Strip(BeforeComma(ln_loc)) IN
         IF token # <<>> /\ IsSubstring(token, text) THEN 20 ELSE 0

\* the employer is not looked for
CompanyPointsNever(ln_comp, text) == 0

\* lines 736-741
CompanyPoints(ln_comp, text) ==
    IF ln_comp # <<>> /\ IsSubstring(ln_comp, text) THEN 10 ELSE 0

\* the embedding of the candidate's profile image, lines 745-751
CandidateEmbedding(linkedin_emb, c) ==
    IF linkedin_emb = <<>> \/ c.img = "" THEN <<>>
    ELSE LET got == DownloadImage(c.img) IN
         IF got = <<>> THEN <<>> ELSE GetEmbedding(TRUE, got[1])

\* lines 743-754: face_score = sim * 50, in millionths
FaceScore(linkedin_emb, c) ==
    LET fb_emb == CandidateEmbedding(linkedin_emb, c) IN
    IF fb_emb = <<>> THEN 0 ELSE EngineComputeSimilarity(linkedin_emb[1], fb_emb[1]) * 50

\* lines 700-765: the record appended for a candidate whose page loaded
ScoredRecord(p, linkedin_emb, c) ==
    LET ln_name == Lower(p.name)
        ln_loc == Lower(p.location)
        ln_comp == Lower(p.current_company)
        text == Lower(c.page[1])
        name_ratio == FuzzyRatio(ln_name, c.name)
        face_score == FaceScore(linkedin_emb, c)
        \* score * name_ratio.den, in millionths
        scaled == name_ratio.num * 20 * 1000000
                  + name_ratio.den * ((LocationPoints(ln_loc, text)
                                        + CompanyPoints(ln_comp, text)) * 1000000
                                       + face_score)
    IN  [url |-> c.url,
         name |-> c.name,
         score |-> RoundHalfEven(scaled, name_ratio.den * 10000),
         name_ratio |-> RoundHalfEven(name_ratio.num * 1000000, name_ratio.den * 1000),
         face_score |-> RoundHalfEven(face_score, 1000),
         profile_img |-> c.img]

ScoreKeys(rs) == [i \in 1..Len(rs) |-> rs[i].score]

\* sorted(scored, key=lambda x: x["score"], reverse=True)
SortByScore(rs) == SortedDesc(rs, ScoreKeys(rs))

\* verify_from_linkedin_data line 844 and score_profiles lines 677-695:
\* prepare the engine and the embedding of the LinkedIn photo
StartScore ==
    /\ mode = "idle"
    /\ \E p \in PersonDomain, pool \in CandidatePools \ {<<>>}, env \in EngineEnvs :
        LET got == DownloadPhoto(p.photo_url)
            \* line 844, and line 690 through get_embedding
            eng == IF got = <<>> THEN Initialize(NoEngine, env)
                   ELSE Initialize(Initialize(NoEngine, env), env)
            linkedin_emb == IF got = <<>> THEN <<>> ELSE GetEmbedding(eng.app, got[1])
        IN  /\ engine' = eng
            /\ query' = [person |-> <<p>>, emb |-> linkedin_emb]
            /\ profiles' = pool
            /\ tempFiles' = IF got = <<>> THEN NoFiles
                            ELSE WriteFile(NoFiles, "linkedin_photo.jpg", got[1])
    /\ mode' = "score"
    /\ pc' = "scoring"
    /\ nextIdx' = 1
    /\ results' = <<>>
    /\ fetchCount' = 0
    /\ UNCHANGED <<viaMatch, profilesJson, task, ret, report, artifact, response>>

\* lines 698-765: one iteration of the scoring loop
ScoreStep ==
    /\ mode = "score"
    /\ pc = "scoring"
    /\ LET c == profiles[nextIdx]
           fetches == c.page # <<>> /\ query.emb # <<>> /\ c.img # ""
           got == IF fetches THEN DownloadImage(c.img) ELSE <<>>
       IN  /\ results' = IF c.page = <<>> THEN results
                         ELSE Append(results, ScoredRecord(query.person[1], query.emb, c))
           /\ fetchCount' = IF fetches THEN fetchCount + DownloadAttempts(c.img) ELSE fetchCount
           /\ tempFiles' = IF got = <<>> THEN tempFiles
                           ELSE WriteFile(tempFiles, TempFb(c.url), got[1])
    /\ nextIdx' = nextIdx + 1
    /\ pc' = IF nextIdx = Len(profiles) THEN "sorting" ELSE pc
    /\ UNCHANGED <<mode, viaMatch, profilesJson, profiles, task, ret, report, artifact,
                   response, query, engine>>

\* lines 766-768
ScoreFinish ==
    /\ mode = "score"
    /\ pc = "sorting"
    /\ results' = SortByScore(results)
    /\ pc' = "done"
    /\ UNCHANGED <<mode, viaMatch, profilesJson, profiles, nextIdx, task, ret, tempFiles,
                   report, artifact, response, fetchCount, query, engine>>

ScoreNext == ScoreStep \/ ScoreFinish

----------------------------------------------------------------------------
Init ==
    /\ mode = "idle"
    /\ pc = "idle"
    /\ viaMatch = FALSE
    /\ profilesJson = [shape |-> "absent", elems |-> <<>>]
    /\ profiles = <<>>
    /\ nextIdx = 1
    /\ task = NoTasks(0)
    /\ ret = NoRets(0)
    /\ tempFiles = NoFiles
    /\ results = <<>>
    /\ report = NoReport
    /\ artifact = Absent
    /\ response = NoResponse
    /\ fetchCount = 0
    /\ query = NoQuery
    /\ engine = NoEngine

\* one run of one pipeline
Next ==
    \/ StartMain
    \/ MainStep
    \/ StartVerify
    \/ VerifyNext
    \/ StartScore
    \/ ScoreNext

Spec == Init /\ [][Next]_vars

\* a sequence of /match requests
NextMatch ==
    \/ MatchRequest
    \/ MainStep
    \/ MatchRespond

SpecMatch == Init /\ [][NextMatch]_vars

\* one record of top_matches.json
ArtifactRecord(name, profile, similarity) ==
    [name |-> name, profile |-> profile, similarity |-> similarity]

\* every similarity of 4 decimals in [0, 1], in ten-thousandths
SimilarityScale == 0..10000

FormatRecords ==
    { ArtifactRecord("Ann Lee", "in/ann", 9000), ArtifactRecord("Jo Ems", "in/jo", 5000),
      ArtifactRecord("Bob Roy", "in/bob", 4999), ArtifactRecord("Dee Orr", "in/dee", 3500) }

\* the lists top_matches.json is drawn from: one record of any similarity of
\* the scale, and short lists in any order
FormatInputs ==
    { <<ArtifactRecord("Ann Lee", "in/ann", sim)>> : sim \in SimilarityScale }
    \cup SeqsUpTo(FormatRecords, MaxFormatList)

\* the run spawned by a /match request has just written top_matches.json
InitFormat ==
    /\ mode = "main"
    /\ pc = "done"
    /\ viaMatch = TRUE
    /\ profilesJson = [shape |-> "absent", elems |-> <<>>]
    /\ profiles = <<>>
    /\ nextIdx = 1
    /\ task = NoTasks(0)
    /\ ret = NoRets(0)
    /\ tempFiles = NoFiles
    /\ \E data \in FormatInputs :
            /\ results = data
            /\ artifact = [exists |-> TRUE, data |-> data]
    /\ report = NoReport
    /\ response = NoResponse
    /\ fetchCount = 0
    /\ query = NoQuery
    /\ engine = NoEngine

\* the answer of /match to what the run wrote
NextFormat == MatchRespond

SpecFormat == InitFormat /\ [][NextFormat]_vars

\* the faces FaceAnalysis.get may report: quality below, at and above the
\* threshold, boxes of equal and of different area, two embeddings
FaceDomain ==
    { Face(d, b[1], b[2], Embedding(c, "regular")) :
        d \in {400, 500, 800}, b \in {<<2, 3>>, <<3, 2>>, <<1, 8>>}, c \in {900000, 500000} }

ImageDomain == { Picture(faces) : faces \in SeqsUpTo(FaceDomain, MaxFaces) }

\* an image has just been written into TEMP_DIR
InitExtract ==
    /\ mode = "idle"
    /\ pc = "idle"
    /\ viaMatch = FALSE
    /\ profilesJson = [shape |-> "absent", elems |-> <<>>]
    /\ profiles = <<>>
    /\ nextIdx = 1
    /\ task = NoTasks(0)
    /\ ret = NoRets(0)
    /\ \E image \in ImageDomain : tempFiles = WriteFile(NoFiles, "linkedin_photo.jpg", image)
    /\ results = <<>>
    /\ report = NoReport
    /\ artifact = Absent
    /\ response = NoResponse
    /\ fetchCount = 0
    /\ query = NoQuery
    /\ engine = NoEngine

\* get_face_embedding(app, path) with the model of main prepared
ExtractMain ==
    /\ mode = "idle"
    /\ mode' = "main"
    /\ pc' = "extracted"
    /\ engine' = [app |-> TRUE, builds |-> 1]
    /\ query' = [person |-> <<>>, emb |-> GetFaceEmbedding(tempFiles["linkedin_photo.jpg"])]
    /\ UNCHANGED <<viaMatch, profilesJson, profiles, nextIdx, task, ret, tempFiles, results,
                   report, artifact, response, fetchCount>>

\* FaceRecognitionEngine.get_embedding(path), the model being prepared by it
ExtractEngine ==
    /\ mode = "idle"
    /\ mode' = "score"
    /\ pc' = "extracted"
    /\ engine' = Initialize(engine, <<TRUE>>)
    /\ query' = [person |-> <<>>,
                 emb |-> GetEmbedding(engine'.app, tempFiles["linkedin_photo.jpg"])]
    /\ UNCHANGED <<viaMatch, profilesJson, profiles, nextIdx, task, ret, tempFiles, results,
                   report, artifact, response, fetchCount>>

NextExtract == ExtractMain \/ ExtractEngine

SpecExtract == InitExtract /\ [][NextExtract]_vars

----------------------------------------------------------------------------
(* api.py: the /scrape-status handler *)

MaxEntries == 2

\* an entry of the directory of api.py: kind "dir" or "file", st_mtime, and
\* for a directory its final_summary.json: <<>> when there is none, else the
\* file, whose text is JSON with the given data or is not JSON
Entry(name, kind, mtime, summary) ==
    [name |-> name, kind |-> kind, mtime |-> mtime, summary |-> summary]

NoSummary == <<>>
SummaryFile(json, data) == <<[json |-> json, data |-> data]>>

FolderNames ==
    { <<"M", "a", "r", "y", "_", "L", "e", "e", "_", "1">>,
      <<"M", "a", "r", "y", "_", "L", "e", "e", "_", "2">>,
      <<"P", "_", "R", "a", "j", "a", "g", "o", "p", "a", "l", "_", "1">>,
      <<"M", "a", "r", "y", "_", "L", "e", "e">> }

FileNames == { <<"f", "i", "n", "a", "l", "_", "s", "c", "r", "a", "p", "e", "_", "s", "u", "m", "m", "a", "r", "y", ".", "p", "y">> }

EntryDomain ==
    { Entry(n, "dir", t, f) :
        n \in FolderNames, t \in {1, 2},
        f \in {NoSummary, SummaryFile(TRUE, "summary"), SummaryFile(FALSE, "")} }
    \cup { Entry(n, "file", t, NoSummary) : n \in FileNames, t \in {1, 2} }

\* the directory in the order glob yields it; no two entries of one name
Directories ==
    { d \in SeqsUpTo(EntryDomain, MaxEntries) :
        \A i, j \in 1..Len(d) : i # j => d[i].name # d[j].name }

ProfileNames ==
    { <<"M", "a", "r", "y", " ", "L", "e", "e">>,
      <<"m", "a", "r", "y", "_", "l", "e", "e">>,
      <<"L", "i", " ", "W", "u">>,
      <<"P", " ", "R", "a", "j", "g", "o", "p", "a", "l">> }

\* current_dir.glob("*_*_*"): names with two underscores or more
GlobHit(name) == Cardinality({ i \in 1..Len(name) : name[i] = "_" }) >= 2

\* str.replace(old, new)
RECURSIVE Replace(_, _, _)
Replace(t, old, new) ==
    IF Len(t) < Len(old) THEN t
    ELSE IF SubSeq(t, 1, Len(old)) = old
         THEN new \o Replace(SubSeq(t, Len(old) + 1, Len(t)), old, new)
         ELSE <<t[1]>> \o Replace(Tail(t), old, new)

Rajgopal == <<"r", "a", "j", "g", "o", "p", "a", "l">>
Rajagopal == <<"r", "a", "j", "a", "g", "o", "p", "a", "l">>

\* profile_name.lower().replace("_", " ")
SpacedLower(profile_name) == Replace(Lower(profile_name), <<"_">>, <<" ">>)

\* .split(): the positions where a part starts, and the part starting there
PartStarts(t) == { i \in 1..Len(t) : t[i] # " " /\ (i = 1 \/ t[i - 1] = " ") }

PartAt(t, i) ==
    LET ends == { j \in i..Len(t) : j = Len(t) \/ t[j + 1] = " " }
    IN  SubSeq(t, i, CHOOSE j \in ends : \A k \in ends : j <= k)

\* line 133
PartFound(part, folder_name_lower) ==
    /\ Len(part) > 2
    /\ \/ IsSubstring(part, folder_name_lower)
       \/ IsSubstring(Replace(part, Rajgopal, Rajagopal), folder_name_lower)
       \/ IsSubstring(Replace(part, Rajagopal, Rajgopal), folder_name_lower)

\* lines 126-138: at least half of the name parts, and at least one, occur
\* in the lower-cased name
NameMatches(profile_name, name) ==
    LET t == SpacedLower(profile_name)
        matches == Cardinality({ i \in PartStarts(t) : PartFound(PartAt(t, i), Lower(name)) })
    IN  matches >= Cardinality(PartStarts(t)) \div 2 /\ matches > 0

\* a get_scrape_status that looks at directories only
MatchingDirsOnly(dir, profile_name) ==
    { i \in 1..Len(dir) :
        dir[i].kind = "dir" /\ GlobHit(dir[i].name) /\ NameMatches(profile_name, dir[i].name) }

\* matching_folders, as positions in the glob order
MatchingFolders(dir, profile_name) ==
    { i \in 1..Len(dir) : GlobHit(dir[i].name) /\ NameMatches(profile_name, dir[i].name) }

\* max(matching_folders, key=st_mtime): the first of the most recent ones
LatestFolder(dir, matching) ==
    CHOOSE i \in matching :
        \A j \in matching : dir[j].mtime < dir[i].mtime \/ (dir[j].mtime = dir[i].mtime /\ i <= j)

\* the answer of get_scrape_status
ScrapeStatus(dir, profile_name) ==
    LET matching == MatchingFolders(dir, profile_name)
        latest == dir[LatestFolder(dir, matching)]
    IN  IF matching = {}
        THEN [success |-> FALSE, status |-> "not_found", summary |-> <<>>, output_folder |-> <<>>]
        ELSE IF latest.summary = NoSummary
        THEN [success |-> FALSE, status |-> "in_progress", summary |-> <<>>, output_folder |-> <<>>]
        ELSE IF ~latest.summary[1].json
        THEN [success |-> FALSE, status |-> "error", summary |-> <<>>, output_folder |-> <<>>]
        ELSE [success |-> TRUE, status |-> "completed", summary |-> <<latest.summary[1].data>>,
              output_folder |-> latest.name]

\* a state of the directory and a profile name somebody asks for; profiles
\* holds the directory and query.person the name
InitStatus ==
    /\ mode = "idle"
    /\ pc = "idle"
    /\ viaMatch = FALSE
    /\ profilesJson = [shape |-> "absent", elems |-> <<>>]
    /\ profiles \in Directories
    /\ nextIdx = 1
    /\ task = NoTasks(0)
    /\ ret = NoRets(0)
    /\ tempFiles = NoFiles
    /\ results = <<>>
    /\ report = NoReport
    /\ artifact = Absent
    /\ response = NoResponse
    /\ fetchCount = 0
    /\ \E n \in ProfileNames : query = [person |-> <<n>>, emb |-> <<>>]
    /\ engine = NoEngine

\* GET /scrape-status/{profile_name}
GetScrapeStatus ==
    /\ mode = "idle"
    /\ mode' = "status"
    /\ pc' = "answered"
    /\ response' = ScrapeStatus(profiles, query.person[1])
    /\ UNCHANGED <<viaMatch, profilesJson, profiles, nextIdx, task, ret, tempFiles, results,
                   report, artifact, fetchCount, query, engine>>

NextStatus == GetScrapeStatus

SpecStatus == InitStatus /\ [][NextStatus]_vars

\* face-only runs on pools with more qualifying candidates than the output
\* keeps, every candidate with a scratch file of its own
MaxRankPool == 6

RankCycle ==
    << Profile("Jo",  "Ems", "in/jo",  "url", "u_mid"),
       Profile("Ann", "Lee", "in/ann", "url", "u_hi"),
       Profile("Dee", "Orr", "in/dee", "url", "u_edge"),
       Profile("Bob", "Roy", "in/bob", "url", "u_tie"),
       Profile("Gus", "Ito", "in/gus", "url", "u_low") >>

\* a second candidate of a first name, for pools longer than the cycle
Again(p) == Profile(p.first \o "2", p.last, p.link \o "2", p.shape, p.url)

RankLine(n) ==
    [i \in 1..n |-> IF i <= Len(RankCycle) - 1 THEN RankCycle[i]
                    ELSE IF i = n THEN RankCycle[Len(RankCycle)]
                    ELSE Again(RankCycle[i - Len(RankCycle) + 1])]

RankPools ==
    { RankLine(n) : n \in 1..MaxRankPool }
    \cup { << Profile("Fay", "Kim", "in/fay", "identsEmpty", ""),
              Profile("Ann", "Lee", "in/ann", "url", "u_hi") >> }

StartRank ==
    /\ mode = "idle"
    /\ \E file \in FilesOf(RankPools, {"list"}), modelOk \in BOOLEAN :
            MainSetup("face", file, modelOk)
    /\ viaMatch' = FALSE
    /\ UNCHANGED <<tempFiles, report, artifact, response>>

NextRank ==
    \/ StartRank
    \/ MainStep

SpecRank == Init /\ [][NextRank]_vars

\* runs of final_facial_embedding.py and of verify_with_facial_recognition,
\* one after the other, on the profiles.json the export left on disk
MaxStored == 2

StoredDomain ==
    { Profile("Ann", "Lee", "in/ann", "url", "u_hi"),
      Profile("Fay", "Kim", "in/fay", "identsEmpty", ""),
      Profile("Jo",  "Ems", "in/jo",  "url", "u_mid") }

StoredPools == SeqsUpTo(StoredDomain, MaxStored)

\* format.py writes {"elements": [...]}
InitPool ==
    /\ mode = "idle"
    /\ pc = "idle"
    /\ viaMatch = FALSE
    /\ profilesJson \in FilesOf(StoredPools, {"wrapped"})
    /\ profiles = <<>>
    /\ nextIdx = 1
    /\ task = NoTasks(0)
    /\ ret = NoRets(0)
    /\ tempFiles = NoFiles
    /\ results = <<>>
    /\ report = NoReport
    /\ artifact = Absent
    /\ response = NoResponse
    /\ fetchCount = 0
    /\ query = NoQuery
    /\ engine = NoEngine

\* no run is under way
NoRunUnderWay ==
    \/ mode = "idle"
    \/ MainEnded
    \/ mode = "verify" /\ pc \in {"failed_noprofiles", "failed_noface", "done"}

\* python final_facial_embedding.py <image> on the stored file
MainOnStored ==
    /\ NoRunUnderWay
    /\ \E img \in QueryImages, modelOk \in BOOLEAN : MainSetup(img, profilesJson, modelOk)
    /\ viaMatch' = FALSE
    /\ report' = NoReport
    /\ UNCHANGED <<tempFiles, artifact, response>>

\* verify_with_facial_recognition on the stored file
VerifyOnStored ==
    /\ NoRunUnderWay
    /\ \E img \in QueryImages, env \in EngineEnvs : VerifySetup(img, profilesJson, env)
    /\ task' = NoTasks(0)
    /\ ret' = NoRets(0)
    /\ UNCHANGED <<viaMatch, artifact, response>>

NextPool ==
    \/ MainOnStored
    \/ MainStep
    \/ VerifyOnStored
    \/ VerifyNext

SpecPool == InitPool /\ [][NextPool]_vars

----------------------------------------------------------------------------
(* Properties *)

IsNonIncreasing(keys) == \A i \in 1..(Len(keys) - 1) : keys[i] >= keys[i + 1]

MainDone == mode \in {"main", "answered"} /\ pc = "done"
VerifyDone == mode = "verify" /\ pc = "done"
ScoreDone == mode = "score" /\ pc = "done"

\* what a candidate's task returns when it works on the image of its own URL
OwnResult(p) ==
    IF p.shape # "url" THEN <<>>
    ELSE LET r == SessionGet(MainForcelist, p.url)
             emb == GetFaceEmbedding(r.body)
             sim == ComputeSimilarity(ReferenceEmbedding, emb[1])
         IN  IF r.status = 200 /\ emb # <<>> /\ ~sim.raised
             THEN <<MatchRecord(p, sim.value)>> ELSE <<>>

OwnVerifyResult(p) ==
    IF p.shape # "url" THEN <<>>
    ELSE LET got == DownloadImage(p.url)
             emb == IF got = <<>> THEN <<>> ELSE GetFaceEmbedding(got[1])
         IN  IF emb # <<>>
             THEN <<VerifyRecord(p, EngineComputeSimilarity(ReferenceEmbedding, emb[1]))>>
             ELSE <<>>

IsSome(x) == x # <<>>

\* the cosine similarity to the query of the face a candidate's image shows
OwnCosine(p) ==
    ComputeSimilarity(ReferenceEmbedding, GetFaceEmbedding(Net(p.url).body)[1]).value

\* the results of a pool whose tasks run one after the other in pool order
InOrderResults(pool) ==
    LET some == SelectSeq([i \in 1..Len(pool) |-> OwnResult(pool[i])], IsSome)
    IN  [i \in 1..Len(some) |-> some[i][1]]

InOrderVerifyResults(pool) ==
    LET some == SelectSeq([i \in 1..Len(pool) |-> OwnVerifyResult(pool[i])], IsSome)
    IN  [i \in 1..Len(some) |-> some[i][1]]

\* C1: the result list a pipeline returns or writes is in non-increasing order
\* of its ranking score: similarity for main (results, top_matches.json) and
\* for verify_with_facial_recognition (matches), score for score_profiles.
OutputsSorted ==
    /\ MainDone => /\ IsNonIncreasing(SimilarityKeys(results))
                   /\ IsNonIncreasing(SimilarityKeys(artifact.data))
    /\ report.returned => IsNonIncreasing(SimilarityKeys(report.matches))
    /\ ScoreDone => IsNonIncreasing(ScoreKeys(results))

\* C1 witness: a run whose second candidate outranks its first
SortReorders ==
    /\ VerifyDone
    /\ Len(profiles) = 2
    /\ Len(report.matches) = 2
    /\ report.matches[1].profile_url = profiles[2].link
    /\ report.matches[1].similarity > report.matches[2].similarity

\* C2 as stated: every face-only run, main or verify_with_facial_recognition,
\* returns at most 4 results.
AtMostFourResults ==
    /\ MainDone => Len(results) <= 4 /\ Len(artifact.data) <= 4
    /\ report.returned => Len(report.matches) <= 4

\* C2 amended: main returns and writes at most 4 results;
\* verify_with_facial_recognition returns at most 10 matches.
ResultCountBounded ==
    /\ MainDone => Len(results) <= MainTopN /\ Len(artifact.data) <= MainTopN
    /\ report.returned => Len(report.matches) <= VerifyTopN

\* C2 witness: more candidates matched than main keeps
MainTruncates ==
    /\ mode = "main"
    /\ pc = "done"
    /\ Cardinality({ i \in DOMAIN ret : ret[i] # <<>> /\ AboveThreshold(ret[i][1]) }) > MainTopN
    /\ Len(results) = MainTopN

\* C3: in face-only mode every result of the final list has similarity >= 0.35
\* and no candidate whose cosine similarity to the query is below 0.35 is in
\* the final list.
ThresholdEnforced ==
    /\ MainDone =>
          \A k \in 1..Len(results) :
              /\ results[k].similarity >= SIMILARITY_THRESHOLD
              /\ \A i \in 1..Len(profiles) :
                    (ret[i] = <<results[k]>> /\ OwnResult(profiles[i]) = ret[i])
                        => OwnCosine(profiles[i]) >= SIMILARITY_THRESHOLD * 100
    /\ report.returned =>
          \A k \in 1..Len(report.matches) :
              report.matches[k].similarity >= SIMILARITY_THRESHOLD

\* C4: the output of a run is a function of its query and pool alone: whatever
\* the order in which the tasks run and complete, it is the output of the run
\* in which the tasks run one after the other in pool order.
OutputIndependentOfTiming ==
    (mode = "main" /\ pc = "done") => results = RankMain(InOrderResults(profiles))

\* first position in the pool of the candidate with this profile reference
PoolPosition(link) ==
    CHOOSE i \in 1..Len(profiles) :
        /\ profiles[i].link = link
        /\ \A j \in 1..(i - 1) : profiles[j].link # link

\* C5: results of equal similarity appear in the order their candidates have
\* in the pool.
TiesKeepPoolOrder ==
    (mode = "main" /\ pc = "done") =>
        \A a, b \in 1..Len(results) :
            (a < b /\ results[a].similarity = results[b].similarity)
                => PoolPosition(results[a].profile) <= PoolPosition(results[b].profile)

\* C6: a candidate task is submitted, or a candidate image requested, only
\* with the query embedding resolved; a query image without usable face ends
\* the run with no result, no task and no request.
NoCandidateWorkWithoutQuery ==
    /\ (mode \in {"main", "verify"} /\ (fetchCount > 0 \/ \E i \in DOMAIN task : task[i] # "none"))
            => query.emb # <<>>
    /\ (mode \in {"main", "verify"} /\ pc = "failed_noface") =>
            /\ results = <<>>
            /\ fetchCount = 0
            /\ \A i \in DOMAIN task : task[i] = "none" /\ ret[i] = <<>>
            /\ mode = "verify" => (report.returned /\ report.matches = <<>> /\ ~report.success)

\* C6 witness: the query has no face and the pool holds a candidate with an image
QueryWithoutFaceEndsRun ==
    /\ mode = "main"
    /\ pc = "failed_noface"
    /\ \E i \in 1..Len(profiles) : profiles[i].shape = "url"

\* C7: a candidate whose fetch fails, whose payload is no image or whose image
\* shows no usable face contributes no result, and every other candidate's
\* result is the one it has without the failing candidate in the pool.
FailuresContained ==
    /\ (mode = "main" /\ pc = "done") =>
            \A i \in 1..Len(profiles) : ret[i] = OwnResult(profiles[i])
    /\ VerifyDone =>
            report.matches = Take(SortBySimilarity(InOrderVerifyResults(profiles)), VerifyTopN)

\* C8: a profile without usable image reference is skipped without an error:
\* no task is submitted for it, it yields no result and the loop goes on.
ImagelessProfilesSkipped ==
    /\ mode = "main" =>
            /\ pc \notin {"unwinding", "crashed"}
            /\ \A i \in 1..Len(profiles) :
                    profiles[i].shape # "url" => (task[i] = "none" /\ ret[i] = <<>>)
    /\ mode = "verify" =>
            \A k \in 1..Len(results), i \in 1..Len(profiles) :
                profiles[i].shape # "url" => results[k].profile_url # profiles[i].link

RunFailedOutright == pc \in {"failed_noimage", "failed_noprofiles", "failed_noface"}

\* C9: /match answers a run that completed with no qualifying match as a
\* success with an empty list, and a run that failed outright as a failure
\* with an empty list.
MatchTellsFailureFromNoMatch ==
    (mode = "answered" /\ response.sent) =>
        /\ (pc = "done" /\ results = <<>>) => (response.success /\ response.results = <<>>)
        /\ RunFailedOutright => (~response.success /\ response.results = <<>>)

\* C10: what /match reports is what the run it spawned produced, and nothing
\* written by an earlier run.
MatchReportsOnlyThisRun ==
    (mode = "answered" /\ response.sent) =>
        response.results = FormattedAll(IF pc = "done" THEN results ELSE <<>>)

Answered == mode = "answered" /\ response.sent /\ response.success

\* C11: for every record of similarity s in [0, 1] the confidence /match
\* reports is s * 100 rounded to the nearest integer (either neighbour when
\* s * 100 lies halfway), an integer in 0..100.
ConfidenceIsRounded ==
    Answered =>
        \A k \in 1..Len(response.results) :
            LET sim == artifact.data[k].similarity
                confidence == response.results[k].confidence
            IN  sim \in SimilarityScale =>
                    /\ confidence \in 0..100
                    /\ 100 * confidence - sim <= 50
                    /\ sim - 100 * confidence <= 50

\* C12: /match returns one record per artifact record, in the artifact's
\* order, with the artifact record's name and profile reference, and with
\* status "verified" exactly when the reported confidence is >= 50 and
\* "pending" otherwise.
FormatKeepsRecords ==
    Answered =>
        /\ Len(response.results) = Len(artifact.data)
        /\ \A k \in 1..Len(response.results) :
                /\ response.results[k].name = artifact.data[k].name
                /\ response.results[k].profile = artifact.data[k].profile
                /\ response.results[k].status =
                        IF response.results[k].confidence >= 50 THEN "verified" ELSE "pending"

\* C12 witness: an answer of two records, a pending one ahead of a verified one
PendingAheadOfVerified ==
    /\ Answered
    /\ Len(response.results) = 2
    /\ response.results[1].name # response.results[2].name
    /\ response.results[1].status = "pending"
    /\ response.results[2].status = "verified"
    /\ response.results[2].confidence = 50

\* the candidate of the pool a scored record belongs to
CandidateOf(r) == CHOOSE c \in { profiles[i] : i \in 1..Len(profiles) } : c.url = r.url

\* the sum of the four contributions of a scored record with the given
\* location token and name ratio, times the denominator of the name ratio,
\* in millionths
ContributionSum(r, token, ratio) ==
    LET c == CandidateOf(r)
        person == query.person[1]
        text == Lower(c.page[1])
        employer == Lower(person.current_company)
        fb_emb == CandidateEmbedding(query.emb, c)
        location == IF token # <<>> /\ IsSubstring(token, text) THEN 20 ELSE 0
        company == IF employer # <<>> /\ IsSubstring(employer, text) THEN 10 ELSE 0
        face == IF query.emb # <<>> /\ fb_emb # <<>>
                THEN EngineComputeSimilarity(query.emb[1], fb_emb[1]) * 50 ELSE 0
    IN  ratio.num * 20 * 1000000
        + ratio.den * ((location + company) * 1000000 + face)

\* C13 as stated: the composite score of every scored candidate equals name
\* ratio * 20, plus 20 if the text of the query location before its first
\* comma is non-empty and occurs in the page text, plus 10 if the lower-cased
\* employer is non-empty and occurs in the page text, plus faceSim * 50 if
\* both embeddings were resolved.
ScoreIsExactSum ==
    mode = "score" =>
        \A k \in 1..Len(results) :
            LET ratio == FuzzyRatio(query.person[1].name, CandidateOf(results[k]).name) IN
            results[k].score * 10000 * ratio.den
                = ContributionSum(results[k], BeforeComma(Lower(query.person[1].location)), ratio)

\* C13 amended: the composite score is that sum rounded to 2 decimals, the
\* location contribution being decided on the text before the first comma
\* with the blanks around it stripped.
ScoreIsRoundedSum ==
    mode = "score" =>
        \A k \in 1..Len(results) :
            LET ratio == FuzzyRatio(query.person[1].name, CandidateOf(results[k]).name) IN
            results[k].score
                = RoundHalfEven(ContributionSum(results[k],
                                    Strip(BeforeComma(Lower(query.person[1].location))), ratio),
                                ratio.den * 10000)

\* C13 witness: a candidate scored on all four contributions
\* (18/19 * 20 + 20 + 10 + 0.9 * 50 = 93.947... recorded as 93.95)
AllFourContributions ==
    /\ ScoreDone
    /\ \E k \in 1..Len(results) :
            /\ results[k].score = 9395
            /\ results[k].face_score = 45000
            /\ results[k].name_ratio = 947

\* C14: every composite score score_profiles produces lies in [0, 100]
\* (hundredths: 0..10000); it is never negative.
ScoreInRange ==
    mode = "score" =>
        \A k \in 1..Len(results) : results[k].score >= 0 /\ results[k].score <= 10000

\* C15: every face similarity computed from two embeddings lies in [0, 1]:
\* the similarity of every record of main and verify_with_facial_recognition
\* (ten-thousandths) and the face contribution sim * 50 of score_profiles
\* (thousandths of a point).
SimilarityInUnitRange ==
    /\ mode \in {"main", "verify"} =>
            /\ \A k \in 1..Len(results) : results[k].similarity \in 0..10000
            /\ \A i \in DOMAIN ret : \A k \in 1..Len(ret[i]) : ret[i][k].similarity \in 0..10000
            /\ \A k \in 1..Len(report.matches) : report.matches[k].similarity \in 0..10000
    /\ mode = "score" =>
            \A k \in 1..Len(results) : results[k].face_score \in 0..50000

\* the faces of the image the extraction has read
SeenFaces == tempFiles["linkedin_photo.jpg"].faces

\* the positions of the faces of detection quality >= 0.5
UsableFaces == { i \in 1..Len(SeenFaces) : SeenFaces[i].det_score >= 500 }

BoxArea(f) == f.width * f.height

\* C16: embedding extraction reports no usable face exactly when no detected
\* face has quality >= 0.5; otherwise it returns the embedding of a face of
\* quality >= 0.5 whose bounding-box area is maximal among those faces.
LargestUsableFaceChosen ==
    pc = "extracted" =>
        /\ query.emb = <<>> <=> UsableFaces = {}
        /\ UsableFaces # {} =>
                \E i \in UsableFaces :
                    /\ \A j \in UsableFaces : BoxArea(SeenFaces[j]) <= BoxArea(SeenFaces[i])
                    /\ query.emb = <<SeenFaces[i].embedding>>

\* C16 witness: the face detected second is the larger of two usable faces
\* and it is the one returned; a face as large is of too low a quality
SecondFaceIsLargest ==
    /\ pc = "extracted"
    /\ Len(SeenFaces) = 3
    /\ UsableFaces = {1, 2}
    /\ BoxArea(SeenFaces[3]) >= BoxArea(SeenFaces[2])
    /\ BoxArea(SeenFaces[2]) > BoxArea(SeenFaces[1])
    /\ SeenFaces[1].embedding # SeenFaces[2].embedding
    /\ query.emb = <<SeenFaces[2].embedding>>

\* the candidate image URLs the run has fetched so far
FetchedUrls ==
    IF mode = "main"
    THEN { i \in DOMAIN task : task[i] \in {"writing", "saved", "finished", "collected"} }
    ELSE IF mode = "verify"
    THEN { i \in 1..(nextIdx - 1) : ImgUrlOf(profiles[i]) # "" }
    ELSE {}

\* a connection error (status 0) or a 5xx answer
Transient(url) ==
    /\ ~ProtocolRelative(url)
    /\ (Net(url).status = 0 \/ Net(url).status \in 500..599)

\* C17: the requests made for one image URL never exceed the budget of 3
\* attempts; a URL failing with a connection error or a 5xx answer is tried
\* again, and when the budget is used up the candidate is skipped.
AttemptBudgetKept ==
    mode \in {"main", "verify"} =>
        /\ fetchCount <= 3 * Cardinality(FetchedUrls)
        /\ (Len(profiles) = 1 /\ FetchedUrls = {1} /\ Transient(profiles[1].url)) =>
                /\ fetchCount >= 2
                /\ results = <<>>
                /\ mode = "main" => ret[1] = <<>>

\* the run has asked for the face model and has none
ModelUnavailable ==
    /\ mode \in {"main", "verify", "score"}
    /\ pc \notin {"failed_noimage", "failed_noprofiles"}
    /\ ~engine.app

\* C18 as stated: when the initialization of the face model fails the run
\* fails, face-only or composite: no candidate is fetched, scored or ranked
\* and no result list is produced.
InitFailureIsFatal ==
    ModelUnavailable =>
        /\ results = <<>>
        /\ fetchCount = 0
        /\ \A i \in DOMAIN task : task[i] = "none"
        /\ pc \notin {"sorting", "done"}

\* C18 amended: without face model a face-only run fails before any candidate
\* (main dies in init_face_model, verify_with_facial_recognition returns
\* success = False and no match), while the composite run goes on and scores
\* and ranks every candidate on name, location and employer, with a face
\* contribution of 0.
InitFailureFatalToFaceOnlyRuns ==
    /\ (ModelUnavailable /\ mode = "main") =>
            /\ pc = "crashed_init"
            /\ results = <<>>
            /\ fetchCount = 0
            /\ \A i \in DOMAIN task : task[i] = "none"
            /\ ~artifact.exists
    /\ (ModelUnavailable /\ mode = "verify") =>
            /\ pc = "failed_noface"
            /\ results = <<>>
            /\ fetchCount = 0
            /\ report.returned /\ ~report.success /\ report.matches = <<>>
    /\ (ModelUnavailable /\ mode = "score") =>
            /\ query.emb = <<>>
            /\ fetchCount = 0
            /\ \A k \in 1..Len(results) : results[k].face_score = 0
            /\ pc = "done" =>
                    Len(results) = Cardinality({ i \in 1..Len(profiles) : profiles[i].page # <<>> })

\* C18 witness: the construction of the model raised, and the composite run
\* ends with a ranked list scored on text
TextOnlyRanking ==
    /\ ScoreDone
    /\ ~engine.app
    /\ engine.builds >= 1
    /\ Len(results) = 2
    /\ results[1].score > results[2].score
    /\ results[2].score > 0

\* C19: on one FaceRecognitionEngine the model is constructed and prepared by
\* the first call of initialize / get_embedding only; later calls reuse the
\* outcome of that call.
InitializedAtMostOnce == engine.builds <= 1

\* an image whose face has an embedding of norm 0 or holding NaN
Degenerate(url) ==
    LET r == Net(url) IN
    /\ r.status = 200
    /\ r.body.faces # <<>>
    /\ r.body.faces[1].embedding.form # "regular"

\* C20: a candidate whose embedding is degenerate is not failed: its
\* similarity is 0.0 (face-only) and its face contribution 0 (composite).
DegenerateScoresZero ==
    /\ (mode = "main" /\ Len(profiles) = 1 /\ task[1] \in {"finished", "collected"}
            /\ profiles[1].shape = "url" /\ Degenerate(profiles[1].url))
         => ret[1] = <<MatchRecord(profiles[1], 0)>>
    /\ (mode = "verify" /\ Len(profiles) = 1 /\ nextIdx = 2
            /\ profiles[1].shape = "url" /\ Degenerate(profiles[1].url))
         => results = <<VerifyRecord(profiles[1], 0)>>
    /\ mode = "score" =>
            \A i \in 1..(nextIdx - 1) :
                (profiles[i].page # <<>> /\ profiles[i].img # "" /\ Degenerate(profiles[i].img))
                    => \E k \in 1..Len(results) :
                            results[k].url = profiles[i].url /\ results[k].face_score = 0

\* the name ratios score_profiles recorded (thousandths) for the candidates
\* of the given display name, in a run whose query name is "Jon Smith"
JonSmith == <<"J", "o", "n", " ", "S", "m", "i", "t", "h">>
JohnSmith == <<"J", "o", "h", "n", " ", "S", "m", "i", "t", "h">>
AliceJones == <<"A", "l", "i", "c", "e", " ", "J", "o", "n", "e", "s">>

RecordedRatios(name) ==
    { results[k].name_ratio : k \in { j \in 1..Len(results) : results[j].name = name } }

\* C21 as stated: nameRatio("Jon Smith", "John Smith") is greater than 0.9
\* and less than 1.0, and nameRatio("Jon Smith", "Alice Jones") is less
\* than 0.3.
NameRatioScenario ==
    (mode = "score" /\ query.person[1].name = JonSmith) =>
        /\ \A x \in RecordedRatios(JohnSmith) : x > 900 /\ x < 1000
        /\ \A x \in RecordedRatios(AliceJones) : x < 300

\* C21 amended: nameRatio("Jon Smith", "John Smith") is greater than 0.9 and
\* less than 1.0 (18/19), and nameRatio("Jon Smith", "Alice Jones") is 0.4
\* (the blocks "jon" and "s" of 20 characters), which is not below 0.3.
NameRatioScenarioMeasured ==
    (mode = "score" /\ query.person[1].name = JonSmith) =>
        /\ \A x \in RecordedRatios(JohnSmith) : x > 900 /\ x < 1000
        /\ \A x \in RecordedRatios(AliceJones) : x = 400

\* C21 witness: a finished scoring run that compared "Jon Smith" with both
\* "John Smith" and "Alice Jones"
BothNamesScored ==
    /\ ScoreDone
    /\ query.person[1].name = JonSmith
    /\ RecordedRatios(JohnSmith) # {}
    /\ RecordedRatios(AliceJones) # {}

\* C22: an image URL of the form //host/... is requested as https://host/...
\* in every pipeline that fetches candidate images, so a candidate whose
\* only flaw is such a URL is fetched and compared like any other.
ProtocolRelativeRewritten ==
    /\ (mode = "main" /\ Len(profiles) = 1 /\ task[1] \in {"finished", "collected"}
            /\ profiles[1].shape = "url" /\ ProtocolRelative(profiles[1].url))
         => /\ fetchCount = 1
            /\ ret[1] = <<MatchRecord(profiles[1], 900000)>>
    /\ (mode = "verify" /\ Len(profiles) = 1 /\ nextIdx = 2 /\ engine.app
            /\ profiles[1].shape = "url" /\ ProtocolRelative(profiles[1].url))
         => /\ fetchCount = 1
            /\ results = <<VerifyRecord(profiles[1], 900000)>>

\* C23: no run of a pipeline changes profiles.json: the stored pool and
\* every record of it are after each step what they were before it.
PoolOnlyRead == [][profilesJson' = profilesJson]_vars

\* C23 amended: no run changes a record of the stored pool or their order;
\* verify_with_facial_recognition never writes the file, and main writes it
\* only while loading it, replacing {"elements": [...]} by the bare list.
PoolRecordsKept ==
    [][/\ profilesJson'.elems = profilesJson.elems
       /\ profilesJson' # profilesJson =>
            /\ mode' = "main"
            /\ pc' \notin {"failed_noimage"}
            /\ NoRunUnderWay
            /\ profiles' = profilesJson.elems
            /\ profilesJson.shape = "wrapped"
            /\ profilesJson'.shape = "list"]_vars

\* C23 witness: a finished face-only run on a pool that was stored as
\* {"elements": [...]} and is now stored as the bare list
PoolUnwrapped ==
    /\ MainDone
    /\ profilesJson.shape = "list"
    /\ Len(profilesJson.elems) = 2
    /\ profiles = profilesJson.elems

\* C24: a scratch image file is gone by the time the task that wrote it
\* exits, and after any run, the composite one included, the temp directory
\* holds no scratch image file.
ScratchFilesRemoved ==
    /\ mode = "main" =>
            \A i \in DOMAIN task :
                task[i] \in {"finished", "collected"}
                    => SavePath(profiles[i]) \notin DOMAIN tempFiles
    /\ (MainEnded \/ VerifyDone \/ ScoreDone) => tempFiles = NoFiles

\* a step of the candidate loop of the run under way
CandidateStep ==
    \/ mode = "main" /\ task' # task
    \/ mode \in {"verify", "score"} /\ nextIdx' # nextIdx

\* the record a comparison step adds is the comparison of the candidate's
\* image with the query embedding the run holds
ComparedWithQuery ==
    /\ mode = "main" =>
        \A i \in DOMAIN ret :
            ret'[i] # ret[i] =>
                LET emb == GetFaceEmbedding(tempFiles[SavePath(profiles[i])])
                IN  ret'[i] = <<MatchRecord(profiles[i],
                                            CosineSimilarity(query.emb[1], emb[1]).value)>>
    /\ (mode = "verify" /\ Len(results') > Len(results)) =>
        LET got == DownloadImage(ImgUrlOf(profiles[nextIdx]))
            sim == CosineSimilarity(query.emb[1], GetFaceEmbedding(got[1])[1])
        IN  results'[Len(results')]
                = VerifyRecord(profiles[nextIdx], IF sim.raised THEN 0 ELSE sim.value)

\* C25 as stated: each run resolves exactly one query embedding before any
\* candidate is processed, keeps it unmodified, and compares every candidate
\* against it.
QueryResolvedExactlyOnce ==
    [][/\ mode # "idle" => query' = query
       /\ CandidateStep => Len(query.emb) = 1
       /\ ComparedWithQuery]_vars

\* C25 amended: each run resolves at most one query embedding, before any
\* candidate is processed, and never modifies it; a face-only or verify run
\* processes candidates only with the embedding resolved and compares every
\* one against it; score_profiles also processes the candidates of a run in
\* which none was resolved, and then gives every one the face score 0.
QueryResolvedAtMostOnce ==
    [][/\ mode # "idle" => query' = query
       /\ Len(query'.emb) <= 1
       /\ (CandidateStep /\ mode \in {"main", "verify"}) => Len(query.emb) = 1
       /\ (mode = "score" /\ Len(results') > Len(results) /\ query.emb = <<>>)
            => results'[Len(results')].face_score = 0
       /\ ComparedWithQuery]_vars

\* C25 witness: a verify run and a face-only run that each compared two
\* candidates of different similarity against the one query embedding
TwoComparedWithQuery ==
    /\ VerifyDone \/ MainDone
    /\ query.emb = <<ReferenceEmbedding>>
    /\ Len(results) = 2
    /\ results[1].similarity = 9000
    /\ results[2].similarity = 5000

\* the candidates of the face-only run for which a task was submitted
Submitted == { i \in DOMAIN task : task[i] # "none" }

\* C26: no two tasks of a run use the same scratch file, so the similarity a
\* task reports is computed from the image that task downloaded for its own
\* candidate, whatever the first names in the pool.
NoSharedScratch ==
    mode = "main" =>
        /\ \A i, j \in Submitted :
                i # j => SavePath(profiles[i]) # SavePath(profiles[j])
        /\ \A i \in Submitted :
                task[i] \in {"finished", "collected"} => ret[i] = OwnResult(profiles[i])

\* the tasks whose result the as_completed loop has taken, and the number of
\* times a record occurs in the result list
Collected == { i \in DOMAIN task : task[i] = "collected" }

Occurrences(r) == Cardinality({ k \in 1..Len(results) : results[k] = r })

\* C27: the output is ranked and written only when every submitted task has
\* finished and been collected; while results are collected each result of a
\* finished task is in the list exactly once, whatever the completion order,
\* and the ranked list holds no result twice and misses a qualifying one only
\* when it is full.
RankedAfterAllCollected ==
    mode = "main" =>
        /\ (artifact.exists \/ pc = "done") =>
                \A i \in DOMAIN task : task[i] \in {"none", "collected"}
        /\ pc \in {"submitting", "collecting", "unwinding"} =>
                /\ Len(results) = Cardinality({ i \in Collected : ret[i] # <<>> })
                /\ \A i \in Collected :
                        ret[i] # <<>> =>
                            Occurrences(ret[i][1])
                                = Cardinality({ j \in Collected : ret[j] = ret[i] })
        /\ pc = "done" =>
                /\ artifact = [exists |-> TRUE, data |-> results]
                /\ \A k \in 1..Len(results) :
                        Occurrences(results[k])
                            <= Cardinality({ j \in Collected : ret[j] = <<results[k]>> })
                /\ \A i \in Collected :
                        (ret[i] # <<>> /\ AboveThreshold(ret[i][1]) /\ Occurrences(ret[i][1]) = 0)
                            => Len(results) = MainTopN

\* C27 witness: a run of six tasks, all collected, ranked and written
SixCollectedThenRanked ==
    /\ MainDone
    /\ artifact.exists
    /\ Cardinality(Collected) = 6
    /\ Len(results) = MainTopN

\* C28: in a face-only run whose submission loop is over, exactly one task
\* was submitted for each candidate with an image reference and none for the
\* others, and at every moment at most MAX_WORKERS tasks are executing.
OneTaskPerImageCandidate ==
    mode = "main" =>
        /\ Cardinality(Executing) <= MAX_WORKERS
        /\ pc \in {"collecting", "done", "unwinding", "crashed"} =>
                \A i \in 1..Len(profiles) :
                    profiles[i].shape = "url" <=> task[i] # "none"

\* the tasks that returned a qualifying result the final list does not hold
\* (or holds fewer times than it was returned)
QualifyingLeftOut ==
    { i \in DOMAIN ret :
        /\ ret[i] # <<>>
        /\ AboveThreshold(ret[i][1])
        /\ Occurrences(ret[i][1]) < Cardinality({ j \in DOMAIN ret : ret[j] = ret[i] }) }

\* C29: when a face-only run has written its output and a candidate's result
\* of similarity >= 0.35 is not in it, the output has exactly 4 entries and
\* each of them has a similarity greater than or equal to that result's.
BestQualifyingKept ==
    (mode = "main" /\ pc = "done") =>
        \A i \in QualifyingLeftOut :
            /\ Len(results) = MainTopN
            /\ \A k \in 1..Len(results) : results[k].similarity >= ret[i][1].similarity

\* C29 witness: a written output of 4 entries, the last of similarity 0.5,
\* that leaves out a qualifying result of similarity 0.35
QualifyingResultCut ==
    /\ MainDone
    /\ Len(results) = MainTopN
    /\ results[MainTopN].similarity = 5000
    /\ \E i \in QualifyingLeftOut : ret[i][1].similarity = 3500

\* the positions of the folders (directories) whose name matches the profile
\* name asked for, and the most recently modified of them
StatusFolders == MatchingDirsOnly(profiles, query.person[1])

NewestStatusFolders ==
    { i \in StatusFolders : \A j \in StatusFolders : profiles[j].mtime <= profiles[i].mtime }

\* C30: get_scrape_status answers "not_found" when no folder matches the
\* profile name, "in_progress" when the most recently modified matching
\* folder holds no final_summary.json, and "completed", with the content of
\* that file as the summary, only when the most recently modified matching
\* folder holds final_summary.json.
StatusFollowsFolders ==
    (mode = "status" /\ pc = "answered") =>
        /\ StatusFolders = {} => response.status = "not_found"
        /\ (StatusFolders # {} /\ \A i \in NewestStatusFolders : profiles[i].summary = NoSummary)
                => response.status = "in_progress"
        /\ response.status = "completed" =>
                \E i \in NewestStatusFolders :
                    /\ profiles[i].summary # NoSummary
                    /\ response.summary = <<profiles[i].summary[1].data>>

====
